---- MODULE Spec2Model ----
(***************************************************************************)
(* Reorder detection and order-data reconciliation pipeline of             *)
(* data_extractor.py (class DataExtractor): normalize_client_name,         *)
(* find_matching_client, get_client_last_order, fill_from_history and      *)
(* extract_from_email, with the completion service and the client/order    *)
(* store as the environment.                                               *)
(***************************************************************************)
EXTENDS Integers, Sequences, FiniteSets, TLC

(***************************************************************************)
(* Bounds of the model.                                                    *)
(***************************************************************************)
MaxClients == 2
MaxOrders == 2
MaxTime == 2

(***************************************************************************)
(* Python / JSON values.  A value is [k, n]: k is the kind, n the number,  *)
(* the index of a string in the string table (0 is the empty string), or   *)
(* 1/0 for true/false.  "absent" is a key that the dict does not hold.     *)
(***************************************************************************)
Absent == [k |-> "absent", n |-> 0]
Null == [k |-> "null", n |-> 0]
Num(i) == [k |-> "num", n |-> i]
Str(i) == [k |-> "str", n |-> i]
Bool(b) == [k |-> "bool", n |-> IF b THEN 1 ELSE 0]
\* f"ID-{id}", the string built from an order id
IdRef(i) == [k |-> "idref", n |-> i]

\* dict.get(key): an absent key reads as None
Get(v) == IF v = Absent THEN Null ELSE v

\* Python truth value of a value: None, 0, "" and False are falsy
Truthy(v) == v.k \notin {"absent", "null"} /\ (v.k = "idref" \/ v.n # 0)

(***************************************************************************)
(* Strings that the model looks into are sequences of characters.          *)
(* The combining acute accent is the character "´" (category Mn).          *)
(***************************************************************************)
StrChars(i) ==
    CASE i = 1 -> <<"a", "b", "c", "d">>
      [] i = 2 -> <<"a", "b", "c", "d", " ", "e", "f">>
      [] i = 3 -> <<"A", "b", " ", "c", "d", " ", "e", "f", " ", "g", "h">>
      [] i = 4 -> <<"a", "b">>
      [] i = 5 -> <<"A", "B", "C", "D", "-", "É", "f", ".">>
      [] i = 6 -> <<"z", "z">>
      [] i = 8 -> <<"a", " ", "b", " ", "c", " ", "d", " ", "e", " ", "f", " ", "g", " ",
                    "h", " ", "z", " ", "a", "b", "c", "d">>
      [] i = 9 -> <<"a", " ", "b", " ", "c">>
      [] i = 10 -> <<"a", " ", "b">>
      [] OTHER -> <<>>

\* str.lower() on one character
Lower(c) ==
    CASE c = "A" -> "a"
      [] c = "B" -> "b"
      [] c = "C" -> "c"
      [] c = "D" -> "d"
      [] c = "É" -> "é"
      [] OTHER -> c

\* unicodedata.normalize('NFD', .) on one character
NFD(c) == IF c = "é" THEN <<"e", "´">> ELSE IF c = "É" THEN <<"E", "´">> ELSE <<c>>

\* unicodedata.category(c) = 'Mn'
IsMn(c) == c = "´"

IsSpace(c) == c = " "

RECURSIVE FlatMap(_, _)
\* ''.join(Op(c) for c in s), Op given as a function from characters to sequences
FlatMap(f, s) == IF s = <<>> THEN <<>> ELSE f[Head(s)] \o FlatMap(f, Tail(s))

Chars == {"a", "b", "c", "d", "e", "f", "g", "h", "z", "A", "B", "C", "D", "E",
          "é", "É", "´", " ", "-", ".", "'"}

RECURSIVE LStrip(_)
LStrip(s) == IF s # <<>> /\ IsSpace(Head(s)) THEN LStrip(Tail(s)) ELSE s

RECURSIVE RStrip(_)
RStrip(s) == IF s # <<>> /\ IsSpace(s[Len(s)]) THEN RStrip(SubSeq(s, 1, Len(s) - 1)) ELSE s

\* str.strip()
Strip(s) == RStrip(LStrip(s))

\* name.lower(), character by character
LowerMap == [c \in Chars |-> <<Lower(c)>>]
\* unicodedata.normalize('NFD', .), character by character
NFDMap == [c \in Chars |-> NFD(c)]
\* the filter on unicodedata.category(c) != 'Mn'
UnmarkMap == [c \in Chars |-> IF IsMn(c) THEN <<>> ELSE <<c>>]
\* .replace("'", "").replace("-", " ").replace(".", "")
ReplaceMap == [c \in Chars |-> IF c = "'" THEN <<>>
                               ELSE IF c = "-" THEN <<" ">>
                               ELSE IF c = "." THEN <<>>
                               ELSE <<c>>]

\* normalize_client_name without the lower() of line 94
normalize_client_name_keep_case(name) ==
    IF name = <<>> THEN <<>>
    ELSE LET decomposed == FlatMap(NFDMap, name)
             unmarked == FlatMap(UnmarkMap, decomposed)
             replaced == FlatMap(ReplaceMap, unmarked)
         IN  Strip(replaced)

\* normalize_client_name stripping before the replacements instead of after
normalize_client_name_strip_first(name) ==
    IF name = <<>> THEN <<>>
    ELSE LET lowered == FlatMap(LowerMap, name)
             decomposed == FlatMap(NFDMap, lowered)
             unmarked == FlatMap(UnmarkMap, decomposed)
         IN  FlatMap(ReplaceMap, Strip(unmarked))

\* normalize_client_name on a sequence of characters (name is falsy when empty)
normalize_client_name(name) ==
    IF name = <<>> THEN <<>>
    ELSE LET lowered == FlatMap(LowerMap, name)
             decomposed == FlatMap(NFDMap, lowered)
             unmarked == FlatMap(UnmarkMap, decomposed)
             replaced == FlatMap(ReplaceMap, unmarked)
         IN  Strip(replaced)

\* a Python value given as name: None or a string
NoName == [k |-> "null", s |-> <<>>]
NameOf(chars) == [k |-> "str", s |-> chars]

\* normalize_client_name without the guard of line 90: None has no lower()
normalize_value_unguarded(name) ==
    IF name.k = "null" THEN [raised |-> TRUE, s |-> <<>>]
    ELSE [raised |-> FALSE, s |-> normalize_client_name(name.s)]

\* normalize_client_name on a Python value: [raised, s], s the returned string
normalize_value(name) ==
    IF name.k = "null" THEN [raised |-> FALSE, s |-> <<>>]
    ELSE [raised |-> FALSE, s |-> normalize_client_name(name.s)]

RECURSIVE SplitAcc(_, _)
\* the words of s, cur being the word under construction
SplitAcc(s, cur) ==
    IF s = <<>> THEN (IF cur = <<>> THEN {} ELSE {cur})
    ELSE IF IsSpace(Head(s))
         THEN (IF cur = <<>> THEN {} ELSE {cur}) \cup SplitAcc(Tail(s), <<>>)
         ELSE SplitAcc(Tail(s), Append(cur, Head(s)))

\* set(s.split())
Words(s) == SplitAcc(s, <<>>)

\* w in s, for strings
IsSubstring(w, s) ==
    \E i \in 0..(Len(s) - Len(w)) : \A j \in 1..Len(w) : s[i + j] = w[j]

Max(a, b) == IF a >= b THEN a ELSE b

(***************************************************************************)
(* Match scores.  A score is the fraction <<num, den>>; the overlap ratio  *)
(* k/m with the bonus b (0 or 1) is k/m + b * 3/10.  With the short names  *)
(* of the string table the float arithmetic of the code is exact on every  *)
(* comparison made.                                                        *)
(***************************************************************************)
BonusNum == 3
ThresholdNum == 3
ScoreDen == 10
MainWordLen == 3

Score(k, m, b) == <<ScoreDen * k + b * BonusNum * m, ScoreDen * m>>
ZeroScore == <<0, 1>>
ThresholdScore == <<ThresholdNum, ScoreDen>>
\* a > b on fractions
Greater(a, b) == a[1] * b[2] > b[1] * a[2]

NoMatch == [found |-> FALSE, id |-> 0, score |-> ZeroScore]

\* client_score without the boost of line 125-126
client_score_no_boost(search_chars, client_chars) ==
    LET search_words == Words(normalize_client_name(search_chars))
        client_words == Words(normalize_client_name(client_chars))
        common_words == search_words \cap client_words
    IN  IF common_words = {} THEN ZeroScore
        ELSE Score(Cardinality(common_words),
                   Max(Cardinality(search_words), Cardinality(client_words)), 0)

\* client_score dividing by the word count of the shorter name
client_score_min_words(search_chars, client_chars) ==
    LET search_words == Words(normalize_client_name(search_chars))
        client_normalized == normalize_client_name(client_chars)
        client_words == Words(client_normalized)
        common_words == search_words \cap client_words
        boost == IF \E w \in search_words : Len(w) > MainWordLen /\ IsSubstring(w, client_normalized)
                 THEN 1 ELSE 0
        fewer == IF Cardinality(search_words) <= Cardinality(client_words)
                 THEN Cardinality(search_words) ELSE Cardinality(client_words)
    IN  IF common_words = {} THEN ZeroScore
        ELSE Score(Cardinality(common_words), fewer, boost)

\* client_score dividing by the number of words of both names together
client_score_all_words(search_chars, client_chars) ==
    LET search_words == Words(normalize_client_name(search_chars))
        client_normalized == normalize_client_name(client_chars)
        client_words == Words(client_normalized)
        common_words == search_words \cap client_words
        boost == IF \E w \in search_words : Len(w) > MainWordLen /\ IsSubstring(w, client_normalized)
                 THEN 1 ELSE 0
    IN  IF common_words = {} THEN ZeroScore
        ELSE Score(Cardinality(common_words),
                   Cardinality(search_words) + Cardinality(client_words), boost)

\* the score find_matching_client computes for one client, ZeroScore when
\* there is no common word (the client is then skipped)
client_score(search_chars, client_chars) ==
    LET search_words == Words(normalize_client_name(search_chars))
        client_normalized == normalize_client_name(client_chars)
        client_words == Words(client_normalized)
        common_words == search_words \cap client_words
        boost == IF \E w \in search_words : Len(w) > MainWordLen /\ IsSubstring(w, client_normalized)
                 THEN 1 ELSE 0
    IN  IF common_words = {} THEN ZeroScore
        ELSE Score(Cardinality(common_words),
                   Max(Cardinality(search_words), Cardinality(client_words)), boost)

\* the strings that are names: stored names, candidate names, ""
NameIndexes == 0..10

\* client_score of every pair of names: ScoreTable[search][client]
ScoreTable ==
    [search \in NameIndexes |->
        [client \in NameIndexes |-> client_score(StrChars(search), StrChars(client))]]

RECURSIVE best_match_from_last(_, _, _, _)
\* the loop replacing the current best on an equal score too
best_match_from_last(search, clients, i, best) ==
    IF i > Len(clients) THEN best
    ELSE LET score == ScoreTable[search][clients[i]]
         IN  IF Greater(score, ZeroScore) /\ ~Greater(best.score, score)
             THEN best_match_from_last(search, clients, i + 1,
                                       [found |-> TRUE, id |-> i, score |-> score])
             ELSE best_match_from_last(search, clients, i + 1, best)

RECURSIVE best_match_from(_, _, _, _)
\* the loop over the clients, from client i on, best being best_match/best_score
best_match_from(search, clients, i, best) ==
    IF i > Len(clients) THEN best
    ELSE LET score == ScoreTable[search][clients[i]]
         IN  IF Greater(score, best.score)
             THEN best_match_from(search, clients, i + 1,
                                  [found |-> TRUE, id |-> i, score |-> score])
             ELSE best_match_from(search, clients, i + 1, best)

\* find_matching_client accepting a best score equal to the threshold
find_matching_client_inclusive(search_name, db) ==
    IF ~db.connected THEN 0
    ELSE LET search == IF Truthy(search_name) THEN search_name.n ELSE 0
             best == best_match_from(search, db.clients, 1, NoMatch)
         IN  IF best.found /\ ~Greater(ThresholdScore, best.score) THEN best.id ELSE 0

\* find_matching_client: the id of the matched client, 0 for None.
\* search_name is None or a string value; db is the store or not connected.
find_matching_client(search_name, db) ==
    IF ~db.connected THEN 0
    ELSE LET search == IF Truthy(search_name) THEN search_name.n ELSE 0
             best == best_match_from(search, db.clients, 1, NoMatch)
         IN  IF best.found /\ Greater(best.score, ThresholdScore) THEN best.id ELSE 0

(***************************************************************************)
(* The order store.  db.clients is the clients table in rowid order, each  *)
(* entry the string index of nom; db.orders the commandes table, an order  *)
(* being [client_id, statut, validated_at], its id and created_at its      *)
(* position.  validated_at 0 is NULL.                                      *)
(***************************************************************************)
\* ASCII case folding of SQLite's LIKE
AsciiFold(c) == IF c \in {"A", "B", "C", "D", "E"} THEN Lower(c) ELSE c

\* cl.nom LIKE '%' || pattern || '%'
Like(nom, pattern) ==
    \E i \in 0..(Len(nom) - Len(pattern)) :
        \A j \in 1..Len(pattern) : AsciiFold(nom[i + j]) = AsciiFold(pattern[j])

\* Like on every pair of names: LikeTable[nom][pattern]
LikeTable ==
    [nom \in NameIndexes |->
        [pattern \in NameIndexes |-> Like(StrChars(nom), StrChars(pattern))]]

\* the columns of order id that fill_from_history reads
HistContent(id) ==
    CASE id % 4 = 1 ->
           [numero_commande |-> Str(20), produit_type |-> Str(11), nature_produit |-> Str(15),
            quantite |-> Num(2000), unite |-> Str(16), prix_unitaire |-> Num(3),
            prix_total |-> Num(6000), devise |-> Str(17)]
      [] id % 4 = 2 ->
           [numero_commande |-> Null, produit_type |-> Null, nature_produit |-> Str(0),
            quantite |-> Num(1000), unite |-> Str(16), prix_unitaire |-> Num(0),
            prix_total |-> Null, devise |-> Str(18)]
      [] id % 4 = 3 ->
           [numero_commande |-> Null, produit_type |-> Str(0), nature_produit |-> Str(0),
            quantite |-> Num(0), unite |-> Str(0), prix_unitaire |-> Num(0),
            prix_total |-> Num(0), devise |-> Str(0)]
      [] OTHER ->
           [numero_commande |-> Str(0), produit_type |-> Null, nature_produit |-> Null,
            quantite |-> Null, unite |-> Null, prix_unitaire |-> Null,
            prix_total |-> Null, devise |-> Null]

\* the product catalog, as string indexes: 11 "Sachets fond plat", 12 "Sac fond
\* carré sans poignées", 24 "Sac fond carré avec poignées plates", 25 "Sac fond
\* carré avec poignées torsadées"
PRODUCT_TYPES == {11, 12, 24, 25}

\* dict(result) of a row of the join: the order with its columns
OrderRow(db, id) ==
    [found |-> TRUE, id |-> id, client_id |-> db.orders[id].client_id,
     statut |-> db.orders[id].statut, created_at |-> id,
     validated_at |-> db.orders[id].validated_at,
     client_nom |-> db.clients[db.orders[id].client_id],
     content |-> HistContent(id)]

NoOrder ==
    [found |-> FALSE, id |-> 0, client_id |-> 0, statut |-> "", created_at |-> 0,
     validated_at |-> 0, client_nom |-> 0, content |-> HistContent(0)]

\* the rows of the first query: ... WHERE cl.nom LIKE ? AND c.statut = 'validee'
ValidatedRows(db, pattern) ==
    {id \in 1..Len(db.orders) :
        /\ LikeTable[db.clients[db.orders[id].client_id]][pattern]
        /\ db.orders[id].statut = "validee"}

\* the rows of the second query: ... WHERE cl.nom LIKE ?
AnyRows(db, pattern) ==
    {id \in 1..Len(db.orders) : LikeTable[db.clients[db.orders[id].client_id]][pattern]}

\* ORDER BY c.validated_at DESC, c.created_at DESC LIMIT 1
FirstByValidated(db, rows) ==
    {id \in rows : \A other \in rows :
        \/ db.orders[other].validated_at < db.orders[id].validated_at
        \/ db.orders[other].validated_at = db.orders[id].validated_at /\ other <= id}

\* ORDER BY c.created_at DESC LIMIT 1
FirstByCreated(rows) == {id \in rows : \A other \in rows : other <= id}

\* variant: the most recent order of any status is taken at once
get_client_last_order_recent(client_name, db) ==
    IF ~db.connected THEN {NoOrder}
    ELSE LET matched == find_matching_client(client_name, db)
             pattern == IF matched # 0 THEN db.clients[matched] ELSE client_name.n
             recent == FirstByCreated(AnyRows(db, pattern))
         IN  IF recent # {} THEN {OrderRow(db, id) : id \in recent} ELSE {NoOrder}

\* get_client_last_order: the set of rows the queries can return (one row, or
\* NoOrder for None)
get_client_last_order(client_name, db) ==
    IF ~db.connected THEN {NoOrder}
    ELSE LET matched == find_matching_client(client_name, db)
             pattern == IF matched # 0 THEN db.clients[matched] ELSE client_name.n
             validated == FirstByValidated(db, ValidatedRows(db, pattern))
             recent == FirstByCreated(AnyRows(db, pattern))
         IN  IF validated # {} THEN {OrderRow(db, id) : id \in validated}
             ELSE IF recent # {} THEN {OrderRow(db, id) : id \in recent}
             ELSE {NoOrder}

(***************************************************************************)
(* Order records (the dict that _extract_with_openai parses and that       *)
(* extract_from_email returns).  history_fields and auto_rempli are lists  *)
(* of field names, <<>> standing for "no such key" and "no note prefix".   *)
(* informations_supplementaires after a fill is the string                 *)
(* "[AUTO-REMPLI depuis historique: <auto_rempli>] <info>", kept as the    *)
(* pair (auto_rempli, informations_supplementaires).                       *)
(***************************************************************************)
ConfidenceFloor == 85

\* field_mapping, in the iteration order of the dict
FieldOrder == <<"type_produit", "nature_produit", "quantite", "unite",
                "prix_unitaire", "prix_total", "devise">>
MappedFields == {FieldOrder[i] : i \in 1..Len(FieldOrder)}

\* field_mapping[new_field]
HistKey(f) == IF f = "type_produit" THEN "produit_type" ELSE f

EmptyRecord ==
    [numero_commande |-> Absent, entreprise_cliente |-> Absent,
     type_produit |-> Absent, nature_produit |-> Absent, quantite |-> Absent,
     unite |-> Absent, date_commande |-> Absent, date_livraison |-> Absent,
     prix_unitaire |-> Absent, prix_total |-> Absent, devise |-> Absent,
     informations_supplementaires |-> Absent, confiance |-> Absent,
     est_bon_commande |-> Absent, filled_from_history |-> Absent,
     history_fields |-> <<>>, history_source_order |-> Absent,
     auto_rempli |-> <<>>, is_reorder |-> Absent]

\* last_order.get(key)
OrderGet(last_order, key) ==
    IF key \in DOMAIN last_order.content THEN Get(last_order.content[key]) ELSE Null

\* variant: the historical value is copied whatever the extractor found
ShouldFill_overwrite(extracted_value, historical_value) == Truthy(historical_value)

\* variant: only a key that the extracted record does not hold is filled
ShouldFill_missing_key(extracted_value, historical_value) ==
    extracted_value = Absent /\ Truthy(historical_value)

\* variant: a field that already holds the historical value is copied again
ShouldFill_refill(extracted_value, historical_value) ==
    /\ Truthy(historical_value)
    /\ (~Truthy(Get(extracted_value)) \/ extracted_value = historical_value)

\* the condition under which the loop copies a field:
\* not extracted_data.get(new_field) and last_order.get(old_field)
ShouldFill(extracted_value, historical_value) ==
    ~Truthy(Get(extracted_value)) /\ Truthy(historical_value)

\* the confidence after a fill: raised to the floor when it was lower
BoostedConfidence(c) ==
    IF (IF c = Absent THEN 0 ELSE c.n) < ConfidenceFloor THEN Num(ConfidenceFloor) ELSE c

RECURSIVE fill_loop_with_number(_, _, _, _)
\* variant: the mapping also carries the order number of the historical order
fill_loop_with_number(extracted_data, last_order, i, filled_fields) ==
    LET fields == <<"numero_commande">> \o FieldOrder
    IN  IF i > Len(fields) THEN [rec |-> extracted_data, filled |-> filled_fields]
        ELSE LET new_field == fields[i]
                 old_field == HistKey(new_field)
             IN  IF ShouldFill(extracted_data[new_field], OrderGet(last_order, old_field))
                 THEN fill_loop_with_number(
                          [extracted_data EXCEPT ![new_field] = OrderGet(last_order, old_field)],
                          last_order, i + 1, Append(filled_fields, new_field))
                 ELSE fill_loop_with_number(extracted_data, last_order, i + 1, filled_fields)

RECURSIVE fill_loop(_, _, _, _)
\* the loop over field_mapping from position i on: the record and filled_fields
fill_loop(extracted_data, last_order, i, filled_fields) ==
    IF i > Len(FieldOrder) THEN [rec |-> extracted_data, filled |-> filled_fields]
    ELSE LET new_field == FieldOrder[i]
             old_field == HistKey(new_field)
         IN  IF ShouldFill(extracted_data[new_field], OrderGet(last_order, old_field))
             THEN fill_loop([extracted_data EXCEPT ![new_field] = OrderGet(last_order, old_field)],
                            last_order, i + 1, Append(filled_fields, new_field))
             ELSE fill_loop(extracted_data, last_order, i + 1, filled_fields)

\* extracted_data.get('confiance', 0) < 85 raises TypeError on None or a string
ConfidenceComparable(c) == c.k \in {"absent", "num", "bool"}

\* fill_from_history without the `if filled_fields:` of line 202: the provenance
\* keys, the note and the confidence are written even when nothing was copied
fill_from_history_always_noted(extracted_data, last_order) ==
    IF ~last_order.found THEN [raised |-> FALSE, rec |-> extracted_data]
    ELSE LET loop == fill_loop(extracted_data, last_order, 1, <<>>)
             info == Get(loop.rec.informations_supplementaires)
             noted == [loop.rec EXCEPT
                         !.filled_from_history = Bool(TRUE),
                         !.history_fields = loop.filled,
                         !.history_source_order =
                             IF Truthy(OrderGet(last_order, "numero_commande"))
                             THEN OrderGet(last_order, "numero_commande")
                             ELSE IdRef(last_order.id),
                         !.auto_rempli = loop.filled \o loop.rec.auto_rempli,
                         !.informations_supplementaires = IF Truthy(info) THEN info ELSE Str(0)]
         IN  IF ~ConfidenceComparable(noted.confiance)
                  THEN [raised |-> TRUE, rec |-> noted]
             ELSE [raised |-> FALSE,
                   rec |-> [noted EXCEPT !.confiance = BoostedConfidence(noted.confiance)]]

\* fill_from_history without the guard of line 182: `last_order.get` on None
\* raises AttributeError
fill_from_history_unguarded(extracted_data, last_order) ==
    IF ~last_order.found THEN [raised |-> TRUE, rec |-> extracted_data]
    ELSE LET loop == fill_loop(extracted_data, last_order, 1, <<>>)
             info == Get(loop.rec.informations_supplementaires)
             noted == [loop.rec EXCEPT
                         !.filled_from_history = Bool(TRUE),
                         !.history_fields = loop.filled,
                         !.history_source_order =
                             IF Truthy(OrderGet(last_order, "numero_commande"))
                             THEN OrderGet(last_order, "numero_commande")
                             ELSE IdRef(last_order.id),
                         !.auto_rempli = loop.filled \o loop.rec.auto_rempli,
                         !.informations_supplementaires = IF Truthy(info) THEN info ELSE Str(0)]
         IN  IF loop.filled = <<>> THEN [raised |-> FALSE, rec |-> loop.rec]
             ELSE IF ~ConfidenceComparable(noted.confiance)
                  THEN [raised |-> TRUE, rec |-> noted]
             ELSE [raised |-> FALSE,
                   rec |-> [noted EXCEPT !.confiance = BoostedConfidence(noted.confiance)]]

\* fill_from_history: [raised, rec]; raised when the comparison of the
\* confidence raises TypeError
fill_from_history(extracted_data, last_order) ==
    IF ~last_order.found THEN [raised |-> FALSE, rec |-> extracted_data]
    ELSE LET loop == fill_loop(extracted_data, last_order, 1, <<>>)
             info == Get(loop.rec.informations_supplementaires)
             noted == [loop.rec EXCEPT
                         !.filled_from_history = Bool(TRUE),
                         !.history_fields = loop.filled,
                         !.history_source_order =
                             IF Truthy(OrderGet(last_order, "numero_commande"))
                             THEN OrderGet(last_order, "numero_commande")
                             ELSE IdRef(last_order.id),
                         !.auto_rempli = loop.filled \o loop.rec.auto_rempli,
                         !.informations_supplementaires = IF Truthy(info) THEN info ELSE Str(0)]
         IN  IF loop.filled = <<>> THEN [raised |-> FALSE, rec |-> loop.rec]
             ELSE IF ~ConfidenceComparable(noted.confiance)
                  THEN [raised |-> TRUE, rec |-> noted]
             ELSE [raised |-> FALSE,
                   rec |-> [noted EXCEPT !.confiance = BoostedConfidence(noted.confiance)]]

(***************************************************************************)
(* The completion service.  A response is a call error (network failure or *)
(* timeout), a text that is not JSON, or a text holding a JSON value: an   *)
(* object (obj), or another value such as a list (truthy) or null.         *)
(***************************************************************************)
ErrorResponse == [kind |-> "error", obj |-> FALSE, truthy |-> FALSE, rec |-> EmptyRecord]
MalformedResponse == [kind |-> "malformed", obj |-> FALSE, truthy |-> FALSE, rec |-> EmptyRecord]
ListResponse == [kind |-> "json", obj |-> FALSE, truthy |-> TRUE, rec |-> EmptyRecord]
NullResponse == [kind |-> "json", obj |-> FALSE, truthy |-> FALSE, rec |-> EmptyRecord]
ObjectResponse(r) == [kind |-> "json", obj |-> TRUE, truthy |-> r # EmptyRecord, rec |-> r]
\* the call has not been made
NoResponse == [kind |-> "nocall", obj |-> FALSE, truthy |-> FALSE, rec |-> EmptyRecord]

\* the value a parse returns: None, a dict (rec) or another JSON value
NoneValue == [kind |-> "none", truthy |-> FALSE, rec |-> EmptyRecord]
DictValue(r) == [kind |-> "dict", truthy |-> r # EmptyRecord, rec |-> r]
OtherValue == [kind |-> "other", truthy |-> TRUE, rec |-> EmptyRecord]
\* the exception that leaves extract_from_email
Raised == [kind |-> "raised", truthy |-> FALSE, rec |-> EmptyRecord]
\* no call has returned yet
Pending == [kind |-> "pending", truthy |-> FALSE, rec |-> EmptyRecord]

\* json.loads of the response text inside the try block: None stands for the
\* except branch and for the JSON value null
_extract_with_openai(resp) ==
    IF resp.kind # "json" THEN NoneValue
    ELSE IF resp.obj THEN DictValue(resp.rec)
    ELSE IF resp.truthy THEN OtherValue
    ELSE NoneValue

\* the signal of the classifier: a dict with is_reorder and client_name, or
\* (dict = FALSE) a JSON value that is not an object
DegradedSignal == [dict |-> TRUE, is_reorder |-> Bool(FALSE), client_name |-> Null,
                   confidence |-> Num(0)]
SignalResponse(r, c) ==
    [kind |-> "json", obj |-> TRUE, is_reorder |-> r, client_name |-> c, confidence |-> Num(90)]
SignalError == [kind |-> "error", obj |-> FALSE, is_reorder |-> Absent, client_name |-> Absent,
                confidence |-> Absent]
SignalMalformed == [SignalError EXCEPT !.kind = "malformed"]
SignalNotObject == [SignalError EXCEPT !.kind = "json"]

\* the completion object carries no text: `.strip()` on None raises inside the try
SignalNoContent == [SignalError EXCEPT !.kind = "nocontent"]

\* detect_reorder_intent without the try/except around its body: a failure of
\* the call or of the parse leaves the caller without a signal
detect_reorder_intent_unguarded(resp) ==
    IF resp.kind # "json"
    THEN [dict |-> FALSE, is_reorder |-> Absent, client_name |-> Absent, confidence |-> Absent]
    ELSE [dict |-> resp.obj, is_reorder |-> resp.is_reorder, client_name |-> resp.client_name,
          confidence |-> resp.confidence]

\* detect_reorder_intent: the parsed JSON value, or the degraded signal when
\* the call or the parse raises
detect_reorder_intent(resp) ==
    IF resp.kind # "json" THEN DegradedSignal
    ELSE [dict |-> resp.obj, is_reorder |-> resp.is_reorder, client_name |-> resp.client_name,
          confidence |-> resp.confidence]

(***************************************************************************)
(* Inputs.                                                                 *)
(***************************************************************************)
\* names of the clients table and names the classifier reports
ClientNamePool == {1, 2, 3}
CandidateNames == {1, 4, 5, 6}

Statuts == {"en_attente", "validee", "rejetee"}

OrderEntries(n) ==
    {o \in [client_id : 1..n, statut : Statuts, validated_at : 0..MaxTime] :
        (o.statut = "validee") = (o.validated_at # 0)}

Rosters ==
    {r \in UNION {[1..n -> ClientNamePool] : n \in 1..MaxClients} :
        \A i, j \in DOMAIN r : i # j => r[i] # r[j]}

Disconnected == [connected |-> FALSE, clients |-> <<>>, orders |-> <<>>]

\* the store without a connection, and every roster with every commandes
\* table whose orders belong to clients of the roster
Stores ==
    {s \in [connected : BOOLEAN, clients : Rosters \cup {<<>>},
            orders : UNION {[1..n -> OrderEntries(MaxClients)] : n \in 0..MaxOrders}] :
        IF s.connected
        THEN /\ s.clients # <<>>
             /\ \A id \in DOMAIN s.orders : s.orders[id].client_id <= Len(s.clients)
        ELSE s = Disconnected}

ClassifierResponses ==
    {SignalError, SignalMalformed, SignalNotObject}
    \cup {SignalResponse(Bool(TRUE), c) : c \in {Null} \cup {Str(i) : i \in CandidateNames}}
    \cup {SignalResponse(Bool(FALSE), c) : c \in {Null, Str(1)}}

\* records the field extraction answers with
Sample1 ==
    [EmptyRecord EXCEPT !.numero_commande = Null, !.entreprise_cliente = Str(7),
                        !.type_produit = Null, !.nature_produit = Null, !.quantite = Num(500),
                        !.unite = Null, !.date_commande = Null, !.date_livraison = Null,
                        !.prix_unitaire = Null, !.prix_total = Null, !.devise = Null,
                        !.informations_supplementaires = Null, !.confiance = Num(40),
                        !.est_bon_commande = Bool(FALSE)]
Sample2 ==
    [EmptyRecord EXCEPT !.numero_commande = Str(21), !.entreprise_cliente = Str(2),
                        !.type_produit = Str(12), !.nature_produit = Str(13), !.quantite = Num(500),
                        !.unite = Str(14), !.date_commande = Str(22), !.date_livraison = Str(23),
                        !.prix_unitaire = Num(2), !.prix_total = Num(1000), !.devise = Str(18),
                        !.informations_supplementaires = Str(19), !.confiance = Num(92),
                        !.est_bon_commande = Bool(TRUE)]
Sample3 ==
    [EmptyRecord EXCEPT !.entreprise_cliente = Null, !.type_produit = Str(0),
                        !.quantite = Num(0), !.unite = Str(14), !.confiance = Null,
                        !.est_bon_commande = Bool(FALSE)]
\* an answer whose product type is a string outside PRODUCT_TYPES
Sample4 ==
    [Sample1 EXCEPT !.type_produit = Str(26), !.confiance = Num(90),
                    !.est_bon_commande = Bool(TRUE)]
SampleRecords == {EmptyRecord, Sample1, Sample2, Sample3, Sample4}

ExtractorResponses ==
    {ErrorResponse, MalformedResponse, ListResponse, NullResponse}
    \cup {ObjectResponse(r) : r \in SampleRecords}

(***************************************************************************)
(* State.  One message at a time goes through extract_from_email; pc is    *)
(* the position in it.  The f_ variables hold one direct call of           *)
(* fill_from_history, the l_ variables one direct call of                  *)
(* get_client_last_order.                                                  *)
(***************************************************************************)
VARIABLES db, pc, reorder_info, last_order, first_response, standard_response,
          extract_calls, result, f_pc, f_extracted, f_last, f_result,
          f_again, l_pc, l_name, l_result, m_pc, m_name, m_result,
          n_pc, n_input, n_once, n_twice, d_pc, d_response, d_result,
          w_pc, w_from, w_order_data, w_orders, w_reply,
          b_db, b_dir, b_clock, b_last, b_taken

vars == <<db, pc, reorder_info, last_order, first_response, standard_response,
          extract_calls, result, f_pc, f_extracted, f_last, f_result,
          f_again, l_pc, l_name, l_result, m_pc, m_name, m_result,
          n_pc, n_input, n_once, n_twice, d_pc, d_response, d_result,
          w_pc, w_from, w_order_data, w_orders, w_reply,
          b_db, b_dir, b_clock, b_last, b_taken>>

\* one direct call of find_matching_client
match_vars == <<m_pc, m_name, m_result>>
\* one direct call of normalize_client_name, and a second one on its result
norm_vars == <<n_pc, n_input, n_once, n_twice>>
\* one direct call of detect_reorder_intent
detect_vars == <<d_pc, d_response, d_result>>
\* one request to the WhatsApp webhook
hook_vars == <<w_pc, w_from, w_order_data, w_orders, w_reply>>
\* the database file, the backup directory, the clock, the last backup
\* operation with its return value, and the content each backup was taken of
backup_vars == <<b_db, b_dir, b_clock, b_last, b_taken>>
aux_vars == <<match_vars, norm_vars, detect_vars, hook_vars, backup_vars>>

fill_vars == <<f_pc, f_extracted, f_last, f_result, f_again>>
lookup_vars == <<l_pc, l_name, l_result>>
call_vars == <<pc, reorder_info, last_order, first_response, standard_response,
               extract_calls, result>>

CallInit ==
    /\ pc = "idle"
    /\ reorder_info = DegradedSignal
    /\ last_order = NoOrder
    /\ first_response = NoResponse
    /\ standard_response = NoResponse
    /\ extract_calls = 0
    /\ result = Pending

FillOff ==
    /\ f_pc = "off"
    /\ f_extracted = EmptyRecord
    /\ f_last = NoOrder
    /\ f_result = [raised |-> FALSE, rec |-> EmptyRecord]
    /\ f_again = [raised |-> FALSE, rec |-> EmptyRecord]

LookupOff ==
    /\ l_pc = "off"
    /\ l_name = Null
    /\ l_result = NoOrder

MatchOff ==
    /\ m_pc = "off"
    /\ m_name = Null
    /\ m_result = 0

NormOff ==
    /\ n_pc = "off"
    /\ n_input = [k |-> "null", s |-> <<>>]
    /\ n_once = [raised |-> FALSE, s |-> <<>>]
    /\ n_twice = [raised |-> FALSE, s |-> <<>>]

DetectOff ==
    /\ d_pc = "off"
    /\ d_response = SignalError
    /\ d_result = DegradedSignal

HookOff ==
    /\ w_pc = "off"
    /\ w_from = 0
    /\ w_order_data = Pending
    /\ w_orders = <<>>
    /\ w_reply = "none"

BackupOff ==
    /\ b_db = [z |-> FALSE, c |-> 0]
    /\ b_dir = {}
    /\ b_clock = 0
    /\ b_last = [op |-> "none", prefix |-> "", ts |-> 0, gz |-> FALSE, k |-> 0, ret |-> "none"]
    /\ b_taken = {}

\* the stores that the messages are run against: clients in the order of the
\* name pool, every validation made at time 1
PipelineStores ==
    {s \in Stores :
        /\ \A i, j \in DOMAIN s.clients : i < j => s.clients[i] < s.clients[j]
        /\ \A id \in DOMAIN s.orders : s.orders[id].validated_at <= 1}

Init ==
    /\ db \in PipelineStores
    /\ CallInit
    /\ FillOff
    /\ LookupOff
    /\ MatchOff /\ NormOff /\ DetectOff /\ HookOff /\ BackupOff

\* variant: one of the two conditions is enough
TakesReorderBranch_either(signal) ==
    Truthy(Get(signal.is_reorder)) \/ Truthy(Get(signal.client_name))

\* line 237: reorder_info.get('is_reorder') and reorder_info.get('client_name')
TakesReorderBranch(signal) ==
    Truthy(Get(signal.is_reorder)) /\ Truthy(Get(signal.client_name))

\* lines 235-237: the classifier is asked and the branch is taken
Detect(resp) ==
    /\ pc = "idle"
    /\ reorder_info' = detect_reorder_intent(resp)
    /\ IF ~reorder_info'.dict
       THEN \* reorder_info.get raises AttributeError
            /\ pc' = "returned"
            /\ result' = Raised
       ELSE /\ pc' = IF TakesReorderBranch(reorder_info') THEN "lookup" ELSE "standard"
            /\ result' = result
    /\ UNCHANGED <<db, last_order, first_response, standard_response, extract_calls, fill_vars, lookup_vars, aux_vars>>

\* variant: the reorder branch is taken without looking at the lookup result
HistoryFound_always(row) == TRUE

\* line 244: if last_order
HistoryFound(row) == row.found

\* lines 242-244 and 260-261: the history lookup
\* variant: the lookup deletes the order it returns from the commandes table
Lookup_consuming ==
    /\ pc = "lookup"
    /\ \E row \in get_client_last_order(reorder_info.client_name, db) :
          /\ last_order' = row
          /\ pc' = IF HistoryFound(row) THEN "reorder" ELSE "standard"
          /\ db' = IF row.found
                   THEN [db EXCEPT !.orders = SubSeq(db.orders, 1, row.id - 1)
                                               \o SubSeq(db.orders, row.id + 1, Len(db.orders))]
                   ELSE db
    /\ UNCHANGED <<reorder_info, first_response, standard_response, extract_calls, result,
                   fill_vars, lookup_vars, aux_vars>>

Lookup ==
    /\ pc = "lookup"
    /\ \E row \in get_client_last_order(reorder_info.client_name, db) :
          /\ last_order' = row
          /\ pc' = IF HistoryFound(row) THEN "reorder" ELSE "standard"
    /\ UNCHANGED <<db, reorder_info, first_response, standard_response, extract_calls, result,
                   fill_vars, lookup_vars, aux_vars>>

\* variant: the record is named after the stored client of the historical order
merge_with_history_stored_name(extracted, signal, order) ==
    LET named == [extracted EXCEPT !.entreprise_cliente = Str(order.client_nom)]
        filled == fill_from_history(named, order)
    IN  IF filled.raised THEN Raised
        ELSE DictValue([filled.rec EXCEPT !.est_bon_commande = Bool(TRUE),
                                          !.is_reorder = Bool(TRUE)])

\* variant: est_bon_commande is left as extracted
merge_with_history_unforced(extracted, signal, order) ==
    LET named == [extracted EXCEPT !.entreprise_cliente = signal.client_name]
        filled == fill_from_history(named, order)
    IN  IF filled.raised THEN Raised
        ELSE DictValue([filled.rec EXCEPT !.is_reorder = Bool(TRUE)])

\* lines 253-257 on a dict that the extraction returned
merge_with_history(extracted, signal, order) ==
    LET named == [extracted EXCEPT !.entreprise_cliente = signal.client_name]
        filled == fill_from_history(named, order)
    IN  IF filled.raised THEN Raised
        ELSE DictValue([filled.rec EXCEPT !.est_bon_commande = Bool(TRUE),
                                          !.is_reorder = Bool(TRUE)])

\* lines 250-259: extraction in the reorder branch
ReorderExtract(resp) ==
    /\ pc = "reorder"
    /\ first_response' = resp
    /\ extract_calls' = extract_calls + 1
    /\ LET extracted == _extract_with_openai(resp)
       IN  IF extracted.truthy
           THEN /\ pc' = "returned"
                /\ result' = IF extracted.kind # "dict"
                             THEN Raised \* item assignment on a list raises TypeError
                             ELSE merge_with_history(extracted.rec, reorder_info, last_order)
           ELSE /\ pc' = "standard"
                /\ result' = result
    /\ UNCHANGED <<db, reorder_info, last_order, standard_response, fill_vars, lookup_vars, aux_vars>>

\* line 264: standard extraction
StandardExtract(resp) ==
    /\ pc = "standard"
    /\ standard_response' = resp
    /\ extract_calls' = extract_calls + 1
    /\ result' = _extract_with_openai(resp)
    /\ pc' = "returned"
    /\ UNCHANGED <<db, reorder_info, last_order, first_response, fill_vars, lookup_vars, aux_vars>>

\* the caller takes the result; the next message can come
NextMessage ==
    /\ pc = "returned"
    /\ pc' = "idle"
    /\ reorder_info' = DegradedSignal
    /\ last_order' = NoOrder
    /\ first_response' = NoResponse
    /\ standard_response' = NoResponse
    /\ extract_calls' = 0
    /\ result' = Pending
    /\ UNCHANGED <<db, fill_vars, lookup_vars, aux_vars>>

Next ==
    \/ \E resp \in ClassifierResponses : Detect(resp)
    \/ Lookup
    \/ \E resp \in ExtractorResponses : ReorderExtract(resp)
    \/ \E resp \in ExtractorResponses : StandardExtract(resp)
    \/ NextMessage

Spec == Init /\ [][Next]_vars

(***************************************************************************)
(* Direct calls of fill_from_history on every combination of null, empty   *)
(* and present values of the mapped fields.                                *)
(***************************************************************************)
NumericFields == {"quantite", "prix_unitaire", "prix_total"}

\* the value of field f in an extracted record: 0 None, 1 empty (0 or ""), 2 present
ExtractedValue(f, choice) ==
    IF choice = 0 THEN Null
    ELSE IF f \in NumericFields THEN Num(IF choice = 1 THEN 0 ELSE 500)
    ELSE Str(IF choice = 1 THEN 0 ELSE 12)

ConfidenceValues == {Absent, Null, Num(40), Num(84), Num(85), Num(92)}

FillExtracted ==
    {[Sample1 EXCEPT !.type_produit = ExtractedValue("type_produit", ch["type_produit"]),
                     !.nature_produit = ExtractedValue("nature_produit", ch["nature_produit"]),
                     !.quantite = ExtractedValue("quantite", ch["quantite"]),
                     !.unite = ExtractedValue("unite", ch["unite"]),
                     !.prix_unitaire = ExtractedValue("prix_unitaire", ch["prix_unitaire"]),
                     !.prix_total = ExtractedValue("prix_total", ch["prix_total"]),
                     !.devise = ExtractedValue("devise", ch["devise"]),
                     !.confiance = c,
                     !.informations_supplementaires = IF c.k = "num" THEN Str(19) ELSE Null] :
        ch \in [MappedFields -> 0..2], c \in ConfidenceValues}

NumHistoricalOrders == 4

\* a historical order as get_client_last_order returns it
HistoricalOrder(id) ==
    [found |-> TRUE, id |-> id, client_id |-> 1, statut |-> "validee", created_at |-> id,
     validated_at |-> id, client_nom |-> 1, content |-> HistContent(id)]

FillOrders == {NoOrder} \cup {HistoricalOrder(id) : id \in 1..NumHistoricalOrders}

InitFill ==
    /\ db = Disconnected
    /\ CallInit
    /\ f_pc = "called"
    /\ f_extracted \in FillExtracted
    /\ f_last \in FillOrders
    /\ f_result = [raised |-> FALSE, rec |-> EmptyRecord]
    /\ f_again = [raised |-> FALSE, rec |-> EmptyRecord]
    /\ LookupOff
    /\ MatchOff /\ NormOff /\ DetectOff /\ HookOff /\ BackupOff

FillFromHistory ==
    /\ f_pc = "called"
    /\ f_result' = fill_from_history(f_extracted, f_last)
    /\ f_pc' = "returned"
    /\ UNCHANGED <<db, call_vars, f_extracted, f_last, f_again, lookup_vars, aux_vars>>

\* fill_from_history called once more, on the record it returned and the same
\* historical order
FillAgain ==
    /\ f_pc = "returned"
    /\ ~f_result.raised
    /\ f_again' = fill_from_history(f_result.rec, f_last)
    /\ f_pc' = "reapplied"
    /\ UNCHANGED <<db, call_vars, f_extracted, f_last, f_result, lookup_vars, aux_vars>>

NextFill == FillFromHistory \/ FillAgain

SpecFill == InitFill /\ [][NextFill]_vars

(***************************************************************************)
(* Direct calls of get_client_last_order on every store.                   *)
(***************************************************************************)
LookupNames == CandidateNames \cup ClientNamePool

InitLookup ==
    /\ db \in Stores
    /\ CallInit
    /\ FillOff
    /\ l_pc = "called"
    /\ l_name \in {Str(i) : i \in LookupNames}
    /\ l_result = NoOrder
    /\ MatchOff /\ NormOff /\ DetectOff /\ HookOff /\ BackupOff

GetClientLastOrder ==
    /\ l_pc = "called"
    /\ l_result' \in get_client_last_order(l_name, db)
    /\ l_pc' = "returned"
    /\ UNCHANGED <<db, call_vars, fill_vars, l_name, aux_vars>>

NextLookup == GetClientLastOrder

SpecLookup == InitLookup /\ [][NextLookup]_vars

(***************************************************************************)
(* Properties of fill_from_history (checked under SpecFill).               *)
(***************************************************************************)
Range(seq) == {seq[i] : i \in 1..Len(seq)}

\* the value the historical order holds for the mapped field F
HistoricalValue(order, F) ==
    IF F = "type_produit" THEN order.content.produit_type ELSE order.content[F]

FillReturned == f_pc = "returned" /\ f_last.found

\* C1 as stated: a mapped field whose extracted value is non-null keeps its
\* value and is not listed in history_fields, whatever the historical value.
C1_NonNullNeverOverwritten ==
    FillReturned =>
        \A F \in MappedFields :
            (f_extracted[F] \notin {Null, Absent} /\ HistoricalValue(f_last, F) # f_extracted[F])
            => /\ f_result.rec[F] = f_extracted[F]
               /\ F \notin Range(f_result.rec.history_fields)

\* C1 amended: a mapped field whose extracted value is present (not null, not
\* the empty string, not zero) keeps its value and is not listed in
\* history_fields, whatever the historical value.
C1_PresentNeverOverwritten ==
    FillReturned =>
        \A F \in MappedFields :
            (Truthy(f_extracted[F]) /\ HistoricalValue(f_last, F) # f_extracted[F])
            => /\ f_result.rec[F] = f_extracted[F]
               /\ F \notin Range(f_result.rec.history_fields)

C1_Witness ==
    /\ FillReturned
    /\ \E F \in MappedFields :
          /\ Truthy(f_extracted[F])
          /\ Truthy(HistoricalValue(f_last, F))
          /\ HistoricalValue(f_last, F) # f_extracted[F]
          /\ f_result.rec[F] = f_extracted[F]
    /\ f_result.rec.history_fields # <<>>

\* C2 as stated: a mapped field that is null in the extracted record and
\* non-null in the historical order holds the historical value after the call,
\* is listed in history_fields, and filled_from_history is true.
C2_NonNullHistoryFills ==
    FillReturned =>
        \A F \in MappedFields :
            (Get(f_extracted[F]) = Null /\ HistoricalValue(f_last, F) # Null)
            => /\ f_result.rec[F] = HistoricalValue(f_last, F)
               /\ F \in Range(f_result.rec.history_fields)
               /\ f_result.rec.filled_from_history = Bool(TRUE)

\* C2 amended: a mapped field that is null in the extracted record and present
\* (not null, not the empty string, not zero) in the historical order holds the
\* historical value after the call, is listed in history_fields, and
\* filled_from_history is true.
C2_PresentHistoryFills ==
    FillReturned =>
        \A F \in MappedFields :
            (Get(f_extracted[F]) = Null /\ Truthy(HistoricalValue(f_last, F)))
            => /\ f_result.rec[F] = HistoricalValue(f_last, F)
               /\ F \in Range(f_result.rec.history_fields)
               /\ f_result.rec.filled_from_history = Bool(TRUE)

C2_Witness ==
    /\ FillReturned
    /\ \E F \in MappedFields :
          /\ f_extracted[F] = Null
          /\ Truthy(HistoricalValue(f_last, F))
          /\ f_result.rec[F] = HistoricalValue(f_last, F)
          /\ F \in Range(f_result.rec.history_fields)

\* C3: when at least one field was copied from history the call returns a
\* record whose confiance is at least 85: a pre-fill confidence of 85 or more
\* is kept, any other becomes exactly 85.
C3_ConfidenceFloor ==
    (FillReturned /\ f_result.rec.history_fields # <<>>) =>
        /\ ~f_result.raised
        /\ f_result.rec.confiance.k = "num"
        /\ f_result.rec.confiance.n >= ConfidenceFloor
        /\ IF f_extracted.confiance.k = "num" /\ f_extracted.confiance.n >= ConfidenceFloor
           THEN f_result.rec.confiance = f_extracted.confiance
           ELSE f_result.rec.confiance = Num(ConfidenceFloor)

(***************************************************************************)
(* Properties of extract_from_email and of the history lookup (checked     *)
(* under Spec).                                                            *)
(***************************************************************************)
Returned == pc = "returned"

\* the classifier reported a reorder with a candidate client name
ReorderReported ==
    /\ reorder_info.dict
    /\ Truthy(Get(reorder_info.is_reorder))
    /\ Truthy(Get(reorder_info.client_name))

\* the client that the matcher resolves the candidate name to, 0 for none
ResolvedClient == find_matching_client(reorder_info.client_name, db)

\* what one extraction returns on the response resp
ExtractionOf(resp) ==
    IF resp.kind = "json" /\ resp.obj
    THEN [kind |-> "dict", truthy |-> resp.rec # EmptyRecord, rec |-> resp.rec]
    ELSE IF resp.kind = "json" /\ resp.truthy THEN OtherValue
    ELSE NoneValue

\* the call returned the result of the standard extraction, with no reorder
\* or history provenance
StandardOutcome ==
    /\ standard_response # NoResponse
    /\ result = ExtractionOf(standard_response)
    /\ result.rec.is_reorder \in {Absent, Bool(FALSE)}
    /\ result.rec.history_fields = <<>>
    /\ result.rec.filled_from_history = Absent

\* C4: extract_from_email returns an order record or the null sentinel, and
\* never raises.
C4_NeverRaises == Returned => result.kind \in {"dict", "none"}

\* C5: within one extract_from_email call the field extraction is called at
\* most once.
C5_NoRetry == extract_calls <= 1

\* rec is extracted reconciled with order: present extracted values are kept,
\* the other mapped fields hold the present historical values
Reconciled(rec, extracted, order) ==
    \A F \in MappedFields :
        rec[F] = IF Truthy(Get(extracted[F])) THEN extracted[F]
                 ELSE IF Truthy(HistoricalValue(order, F)) THEN HistoricalValue(order, F)
                 ELSE extracted[F]

MergedOutcome ==
    /\ result.kind = "dict"
    /\ result.rec.is_reorder = Bool(TRUE)
    /\ result.rec.est_bon_commande = Bool(TRUE)
    /\ Reconciled(result.rec, first_response.rec, last_order)

SomeOrderLike(pattern) ==
    \E id \in 1..Len(db.orders) : LikeTable[db.clients[db.orders[id].client_id]][pattern]

\* C7 as stated: a reorder with a candidate name that the matcher resolves to
\* no client returns the standard extraction result, without is_reorder and
\* without history_fields.
C7_NoMatchFallsThrough ==
    (Returned /\ ReorderReported /\ ResolvedClient = 0) => StandardOutcome

\* C7 amended: a reorder with a candidate name that the matcher resolves to no
\* client, when no stored client whose name contains the candidate name has
\* an order, returns the standard extraction result, without is_reorder and
\* without history_fields.
C7_NoMatchNoSubstringFallsThrough ==
    (Returned /\ ReorderReported /\ ResolvedClient = 0
        /\ ~SomeOrderLike(reorder_info.client_name.n))
    => StandardOutcome

C7_Witness ==
    /\ Returned /\ ReorderReported /\ ResolvedClient = 0
    /\ db.connected /\ Len(db.orders) > 0
    /\ ~SomeOrderLike(reorder_info.client_name.n)
    /\ StandardOutcome
    /\ result.kind = "dict" /\ result.truthy

\* C8: without a reorder, without a candidate name or without a historical
\* order, the call makes one standard extraction and returns its result as it
\* is.
C8_StandardExtractionAlone ==
    (Returned /\ reorder_info.dict /\ (~ReorderReported \/ ~last_order.found))
    => /\ extract_calls = 1
       /\ first_response = NoResponse
       /\ StandardOutcome

C8_Witness ==
    /\ Returned /\ ReorderReported /\ ~last_order.found
    /\ db.connected /\ Len(db.orders) > 0
    /\ extract_calls = 1
    /\ result.kind = "dict" /\ result.rec.est_bon_commande = Bool(FALSE)
    /\ StandardOutcome

(***************************************************************************)
(* Properties of get_client_last_order (checked under SpecLookup).         *)
(***************************************************************************)
LookupReturned == l_pc = "returned"

\* the client that the matcher resolves the looked-up name to, 0 for none
LookupClient == find_matching_client(l_name, db)

\* client c has an order with status validated
HasValidated(c) ==
    \E id \in 1..Len(db.orders) : db.orders[id].client_id = c /\ db.orders[id].statut = "validee"

\* C9: when the resolved client has a validated order the lookup returns a
\* validated order; an order of another status is returned only when neither
\* its client nor the resolved client has a validated order.
C9_ValidatedFirst ==
    LookupReturned =>
        /\ (LookupClient # 0 /\ HasValidated(LookupClient))
           => (l_result.found /\ l_result.statut = "validee")
        /\ (l_result.found /\ l_result.statut # "validee")
           => /\ ~HasValidated(l_result.client_id)
              /\ LookupClient # 0 => ~HasValidated(LookupClient)

C9_Witness ==
    /\ LookupReturned
    /\ LookupClient # 0
    /\ l_result.found /\ l_result.statut = "validee"
    /\ l_result.client_id = LookupClient
    /\ \E id \in 1..Len(db.orders) :
          /\ id > l_result.id
          /\ db.orders[id].client_id = LookupClient
          /\ db.orders[id].statut = "rejetee"

\* C10: the order that the lookup returns is an order of the client the name
\* was resolved to.
C10_OrderOfResolvedClient ==
    (LookupReturned /\ LookupClient # 0 /\ l_result.found)
    => l_result.client_id = LookupClient

(***************************************************************************)
(* Direct calls of detect_reorder_intent, one completion answer each.      *)
(***************************************************************************)
SignalConfidences == {Null, Num(0), Num(50), Num(90)}

DetectResponses ==
    {SignalError, SignalNoContent, SignalMalformed, SignalNotObject} \cup
    {[kind |-> "json", obj |-> TRUE, is_reorder |-> r, client_name |-> c, confidence |-> q] :
        r \in {Bool(TRUE), Bool(FALSE), Null},
        c \in {Null} \cup {Str(i) : i \in NameIndexes},
        q \in SignalConfidences}

InitDetect ==
    /\ db = Disconnected
    /\ CallInit
    /\ FillOff
    /\ LookupOff
    /\ MatchOff /\ NormOff /\ HookOff /\ BackupOff
    /\ d_pc = "called"
    /\ d_response \in DetectResponses
    /\ d_result = DegradedSignal

DetectReorderIntent ==
    /\ d_pc = "called"
    /\ d_result' = detect_reorder_intent(d_response)
    /\ d_pc' = "returned"
    /\ UNCHANGED <<db, call_vars, fill_vars, lookup_vars, backup_vars, match_vars, norm_vars, hook_vars,
                   d_response>>

NextDetect == DetectReorderIntent

SpecDetect == InitDetect /\ [][NextDetect]_vars

\* the completion call raised, or what it answered is not JSON text
DetectFailed ==
    d_response.kind \in {"error", "nocontent", "malformed"}

\* C11: when the completion call raises or its text cannot be parsed as JSON,
\* detect_reorder_intent returns to its caller a signal with is_reorder false,
\* client_name null and confidence 0
C11_DetectDegrades ==
    (d_pc = "returned" /\ DetectFailed) =>
        /\ d_result.dict
        /\ d_result.is_reorder = Bool(FALSE)
        /\ d_result.client_name = Null
        /\ d_result.confidence = Num(0)

C11_Witness ==
    /\ d_pc = "returned"
    /\ d_response.kind = "malformed"
    /\ d_result.is_reorder = Bool(FALSE)

(***************************************************************************)
(* Direct calls of find_matching_client, one candidate name against one    *)
(* roster.                                                                 *)
(***************************************************************************)
MaxRoster == 3

MatchClientPool == {1, 2, 3, 5, 8, 9, 10}
MatchCandidates == {1, 2, 3, 4, 5, 6, 9, 10}

MatchRosters ==
    {r \in UNION {[1..n -> MatchClientPool] : n \in 1..MaxRoster} :
        \A i, j \in DOMAIN r : i # j => r[i] # r[j]}

MatchStores ==
    {Disconnected} \cup {[connected |-> TRUE, clients |-> r, orders |-> <<>>] : r \in MatchRosters}

InitMatch ==
    /\ db \in MatchStores
    /\ CallInit
    /\ FillOff
    /\ LookupOff
    /\ NormOff /\ DetectOff /\ HookOff /\ BackupOff
    /\ m_pc = "called"
    /\ m_name \in {Null} \cup {Str(i) : i \in MatchCandidates}
    /\ m_result = 0

FindMatchingClient ==
    /\ m_pc = "called"
    /\ m_result' = find_matching_client(m_name, db)
    /\ m_pc' = "returned"
    /\ UNCHANGED <<db, call_vars, fill_vars, lookup_vars, backup_vars, norm_vars, detect_vars, hook_vars,
                   m_name>>

NextMatch == FindMatchingClient

SpecMatch == InitMatch /\ [][NextMatch]_vars

\* a find_matching_client call that read a roster has returned
MatchReturned == m_pc = "returned" /\ db.connected
MatchSearch == IF Truthy(m_name) THEN m_name.n ELSE 0
SameScore(a, b) == a[1] * b[2] = b[1] * a[2]

\* the largest score the loop computed over the roster (0 when it computed none)
BestComputed ==
    LET scores == {ScoreTable[MatchSearch][db.clients[i]] : i \in DOMAIN db.clients}
    IN  CHOOSE s \in scores : \A t \in scores : ~Greater(t, s)

\* C12: find_matching_client returns no match when the best score over the
\* roster is 0.3 or lower, and a client when it is strictly greater than 0.3
C12_ThresholdExclusive ==
    MatchReturned =>
        /\ ~Greater(BestComputed, <<3, 10>>) => m_result = 0
        /\ Greater(BestComputed, <<3, 10>>) => m_result \in DOMAIN db.clients

C12_Witness ==
    /\ MatchReturned
    /\ SameScore(BestComputed, <<3, 10>>)
    /\ m_result = 0

\* the reference rule: |common tokens| / max(|candidate tokens|, |client tokens|),
\* plus 0.3 when a candidate token longer than 3 characters is a substring of
\* the client's normalized name
ReferenceScore(search, client) ==
    LET cand == Words(normalize_client_name(StrChars(search)))
        norm == normalize_client_name(StrChars(client))
        toks == Words(norm)
        k == Cardinality(cand \cap toks)
        m == Max(1, Max(Cardinality(cand), Cardinality(toks)))
        b == IF \E w \in cand : Len(w) > 3 /\ IsSubstring(w, norm) THEN 1 ELSE 0
    IN  <<10 * k + 3 * b * m, 10 * m>>

ReferenceTable ==
    [search \in NameIndexes |-> [client \in NameIndexes |-> ReferenceScore(search, client)]]

ReferenceOf(i) == ReferenceTable[MatchSearch][db.clients[i]]

\* C13: find_matching_client returns a client whose reference score is the
\* maximum over the roster when that maximum exceeds 0.3, and no match otherwise
C13_ReferenceRule ==
    MatchReturned =>
        IF \E i \in DOMAIN db.clients : Greater(ReferenceOf(i), <<3, 10>>)
        THEN /\ m_result \in DOMAIN db.clients
             /\ \A j \in DOMAIN db.clients : ~Greater(ReferenceOf(j), ReferenceOf(m_result))
        ELSE m_result = 0

\* the bonus decides: the matched client shares one token in ten with the candidate
C13_Witness ==
    /\ MatchReturned
    /\ m_result \in DOMAIN db.clients
    /\ m_name = Str(1)
    /\ db.clients[m_result] = 8

\* client i of the roster has tokens, and the candidate's tokens include them all
CandidateCovers(i) ==
    LET toks == Words(normalize_client_name(StrChars(db.clients[i])))
    IN  toks # {} /\ toks \subseteq Words(normalize_client_name(StrChars(MatchSearch)))

\* the share of the candidate's tokens that are tokens of client i
OverlapAlone(i) ==
    LET cand == Words(normalize_client_name(StrChars(MatchSearch)))
        toks == Words(normalize_client_name(StrChars(db.clients[i])))
    IN  <<Cardinality(cand \cap toks), Cardinality(cand)>>

\* C14: when the candidate's tokens are a superset of a client's tokens, the
\* score computed for that client is at least the score that the candidate's
\* exact tokens give alone, without the substring bonus
C14_SupersetScore ==
    MatchReturned =>
        \A i \in DOMAIN db.clients :
            CandidateCovers(i) =>
                ~Greater(OverlapAlone(i), ScoreTable[MatchSearch][db.clients[i]])

C14_Witness ==
    /\ MatchReturned
    /\ \E i \in DOMAIN db.clients :
          /\ CandidateCovers(i)
          /\ OverlapAlone(i)[1] < OverlapAlone(i)[2]
          /\ SameScore(OverlapAlone(i), ScoreTable[MatchSearch][db.clients[i]])

\* C15: every record returned by extract_from_email has a type_produit that
\* is null (or left out) or one of the four strings of PRODUCT_TYPES
C15_TypeInCatalog ==
    (Returned /\ result.kind = "dict") =>
        result.rec.type_produit \in {Absent, Null} \cup {Str(i) : i \in PRODUCT_TYPES}

\* C16: no step of extract_from_email, with the find_matching_client and
\* get_client_last_order calls it makes, changes the clients or the orders
\* held by the store
C16_StoreReadOnly == [][db' = db]_vars

\* a message went through the history lookup and got an order back
C16_Witness ==
    /\ Returned
    /\ db.connected
    /\ db.orders # <<>>
    /\ last_order.found

\* C17: fill_from_history with a null historical order returns the extracted
\* record as it was given: every field value, provenance flag, note and the
\* confidence are those of the input
C17_NullOrderUnchanged ==
    (f_pc = "returned" /\ ~f_last.found) =>
        /\ ~f_result.raised
        /\ \A k \in DOMAIN f_extracted : f_result.rec[k] = f_extracted[k]

\* a record with fields to fill and a low confidence, and no order to fill from
C17_Witness ==
    /\ f_pc = "returned"
    /\ ~f_last.found
    /\ f_extracted.quantite = Null
    /\ f_extracted.confiance = Num(40)
    /\ ~f_result.raised

(***************************************************************************)
(* The WhatsApp webhook.  w_order_data is what extract_from_email gives    *)
(* for the incoming message, w_orders the records handed to                *)
(* db.create_order so far, w_reply the answer to the sender.               *)
(***************************************************************************)
MaxSaved == 2

Senders == {1, 2}

\* f'Client WhatsApp {phone}' for the sender
PhoneName(from) == Str(30 + from)

\* records with every answer the extraction gives for est_bon_commande
HookRecords ==
    {[r EXCEPT !.est_bon_commande = b] :
        r \in SampleRecords, b \in {Absent, Null, Bool(FALSE), Bool(TRUE)}}

\* the outcomes of extract_from_email: None, a record, another JSON value,
\* an exception
HookOutcomes == {NoneValue, OtherValue, Raised} \cup {DictValue(r) : r \in HookRecords}

\* variant: any record is taken for an order
IsPurchaseOrder_any(order_data) == order_data.kind = "dict"

\* order_data and order_data.get('est_bon_commande')
IsPurchaseOrder(order_data) ==
    order_data.truthy /\ Truthy(Get(order_data.rec.est_bon_commande))

\* the record passed to db.create_order
SavedOrder(rec, from) ==
    [rec |-> [rec EXCEPT !.entreprise_cliente =
                             IF Truthy(Get(rec.entreprise_cliente)) THEN rec.entreprise_cliente
                             ELSE PhoneName(from)],
     source |-> "whatsapp", whatsapp_from |-> from]

InitHook ==
    /\ db = Disconnected
    /\ CallInit
    /\ FillOff
    /\ LookupOff
    /\ MatchOff /\ NormOff /\ DetectOff /\ BackupOff
    /\ w_pc = "received"
    /\ w_from \in Senders
    /\ w_order_data \in HookOutcomes
    /\ w_orders = <<>>
    /\ w_reply = "none"

\* whatsapp_webhook from the result of extract_from_email to the response
WhatsappWebhook ==
    /\ w_pc = "received"
    /\ w_pc' = "replied"
    /\ IF w_order_data.kind \in {"raised", "other"}
       THEN /\ w_reply' = "error_500"
            /\ w_orders' = w_orders
       ELSE IF IsPurchaseOrder(w_order_data)
       THEN /\ w_orders' = Append(w_orders, SavedOrder(w_order_data.rec, w_from))
            /\ w_reply' = "confirmation"
       ELSE /\ w_orders' = w_orders
            /\ w_reply' = "fallback"
    /\ UNCHANGED <<db, call_vars, fill_vars, lookup_vars, backup_vars, match_vars, norm_vars, detect_vars,
                   w_from, w_order_data>>

\* the next message arrives
NextRequest ==
    /\ w_pc = "replied"
    /\ Len(w_orders) < MaxSaved
    /\ w_pc' = "received"
    /\ w_from' \in Senders
    /\ w_order_data' \in HookOutcomes
    /\ w_reply' = "none"
    /\ UNCHANGED <<db, call_vars, fill_vars, lookup_vars, backup_vars, match_vars, norm_vars, detect_vars,
                   w_orders>>

NextHook == WhatsappWebhook \/ NextRequest

SpecHook == InitHook /\ [][NextHook]_vars

\* extract_from_email returned null, or a record whose est_bon_commande is false
ExtractionFailed ==
    \/ w_order_data.kind = "none"
    \/ w_order_data.kind = "dict" /\ w_order_data.rec.est_bon_commande = Bool(FALSE)

\* C18: a webhook request for which extract_from_email returned null or a
\* record with est_bon_commande false creates no order and is answered with
\* the fallback message; a request creates an order only when a record with
\* est_bon_commande true was returned
C18_PersistsOnlyOnSuccess ==
    [][(w_pc = "received" /\ w_pc' = "replied") =>
          /\ ExtractionFailed => (w_orders' = w_orders /\ w_reply' = "fallback")
          /\ w_orders' # w_orders =>
                (w_order_data.kind = "dict" /\ w_order_data.rec.est_bon_commande = Bool(TRUE))]_vars

\* a record that is not a purchase order was answered with the fallback
C18_Witness ==
    /\ w_pc = "replied"
    /\ w_order_data.kind = "dict"
    /\ w_order_data.rec.quantite = Num(500)
    /\ w_order_data.rec.est_bon_commande = Bool(FALSE)
    /\ w_reply = "fallback"
    /\ w_orders = <<>>

(***************************************************************************)
(* Direct calls of normalize_client_name: once on the input, and once      *)
(* more on what the first call returned.                                   *)
(***************************************************************************)
MaxNameLen == 3

\* letters in both cases, accented letters, the bare accent, and the
\* characters the replacements and the strip look for
NormChars == {"a", "A", "é", "É", "´", " ", "-", ".", "'"}

NormInputs ==
    {NoName} \cup {NameOf(s) : s \in UNION {[1..n -> NormChars] : n \in 0..MaxNameLen}}

InitNorm ==
    /\ db = Disconnected
    /\ CallInit
    /\ FillOff
    /\ LookupOff
    /\ MatchOff /\ DetectOff /\ HookOff /\ BackupOff
    /\ n_pc = "called"
    /\ n_input \in NormInputs
    /\ n_once = [raised |-> FALSE, s |-> <<>>]
    /\ n_twice = [raised |-> FALSE, s |-> <<>>]

NormalizeTwice ==
    /\ n_pc = "called"
    /\ n_once' = normalize_value(n_input)
    /\ n_twice' = IF n_once'.raised THEN n_once' ELSE normalize_value(NameOf(n_once'.s))
    /\ n_pc' = "returned"
    /\ UNCHANGED <<db, call_vars, fill_vars, lookup_vars, backup_vars, match_vars, detect_vars, hook_vars,
                   n_input>>

NextNorm == NormalizeTwice

SpecNorm == InitNorm /\ [][NextNorm]_vars

\* C19: normalizing the result of normalize_client_name again gives the same
\* string, for every string
C19_Idempotent ==
    (n_pc = "returned" /\ n_input.k = "str") =>
        /\ ~n_twice.raised
        /\ n_twice.s = n_once.s

\* an accented upper-case name with a hyphen, which the first call rewrites
C19_Witness ==
    /\ n_pc = "returned"
    /\ n_input = NameOf(<<"É", "-", "A">>)
    /\ n_once.s = <<"e", " ", "a">>
    /\ n_twice.s = <<"e", " ", "a">>

\* C20: normalize_client_name returns for every input, and returns the empty
\* string for null and for the empty string
C20_Total ==
    n_pc = "returned" =>
        /\ ~n_once.raised
        /\ (n_input.k = "null" \/ n_input.s = <<>>) => n_once.s = <<>>

C20_Witness ==
    /\ n_pc = "returned"
    /\ n_input = NoName
    /\ n_once = [raised |-> FALSE, s |-> <<>>]

RECURSIVE Described(_, _)
\* the described output before trimming, character by character: letters in
\* lower case without their accent, marks, apostrophes and periods dropped,
\* and hyphen standing for what a hyphen contributes
Described(s, hyphen) ==
    IF s = <<>> THEN <<>>
    ELSE LET c == Head(s)
             out == CASE c \in {"a", "A"} -> <<"a">>
                      [] c \in {"é", "É"} -> <<"e">>
                      [] c \in {"´", "'", "."} -> <<>>
                      [] c = "-" -> hyphen
                      [] OTHER -> <<c>>
         IN  out \o Described(Tail(s), hyphen)

\* C21 as stated: the output is the input in lower case without combining
\* marks, with every apostrophe, hyphen and period deleted, trimmed of outer
\* whitespace
C21_HyphenDeleted ==
    (n_pc = "returned" /\ n_input.k = "str") =>
        n_once.s = Strip(Described(n_input.s, <<>>))

\* C21 amended: the same, except that every hyphen is replaced by one space
\* (removed by the trimming only at the ends of the name)
C21_HyphenBecomesSpace ==
    (n_pc = "returned" /\ n_input.k = "str") =>
        n_once.s = Strip(Described(n_input.s, <<" ">>))

\* a hyphen between two letters
C21_Witness ==
    /\ n_pc = "returned"
    /\ n_input = NameOf(<<"A", "-", "é">>)
    /\ n_once.s = <<"a", " ", "e">>

(***************************************************************************)
(* Backup and restore of the database file.  A file's data is [z, c]: c    *)
(* the database content it holds (0 for none), z whether the bytes are     *)
(* gzip-compressed.  b_dir is the set of files of the backup directory,    *)
(* each [prefix, ts, gz, data] with the name backup_<ts>.db(.gz) or        *)
(* pre_restore_<ts>.db; ts is the clock reading, in seconds, that          *)
(* strftime put in the name.                                               *)
(***************************************************************************)
\* the clock readings, in seconds, during which the operations run
Seconds == {1, 2}
\* database contents
Contents == {1, 2}
KeepCounts == {0, 1, 2}

\* DB_PATH does not exist
NoFile == [z |-> FALSE, c |-> 0]
\* a database file with content c
Plain(c) == [z |-> FALSE, c |-> c]
Gzip(d) == [z |-> TRUE, c |-> d.c]
Gunzip(d) == [z |-> FALSE, c |-> d.c]

BackupName(ts, gz) == [prefix |-> "backup", ts |-> ts, gz |-> gz]
PreRestoreName(ts) == [prefix |-> "pre_restore", ts |-> ts, gz |-> FALSE]
\* a name no operation ever writes
StrayName == [prefix |-> "nonexistent", ts |-> 0, gz |-> TRUE]

NameOfFile(f) == [prefix |-> f.prefix, ts |-> f.ts, gz |-> f.gz]
Exists(dir, name) == \E f \in dir : NameOfFile(f) = name
ReadFile(dir, name) == (CHOOSE f \in dir : NameOfFile(f) = name).data
WriteFile(dir, name, data) ==
    {f \in dir : NameOfFile(f) # name}
    \cup {[prefix |-> name.prefix, ts |-> name.ts, gz |-> name.gz, data |-> data]}

\* create_backup: [ret, dir]; ret "none" when there is no database file
create_backup(dbfile, dir, now, compress) ==
    IF dbfile = NoFile \/ dbfile.z THEN [ret |-> "none", dir |-> dir]
    ELSE LET copy == Plain(dbfile.c)
         IN  [ret |-> "path",
              dir |-> WriteFile(dir, BackupName(now, compress),
                                IF compress THEN Gzip(copy) ELSE copy)]

\* restore_backup with the existence check of lines 104-106 moved after the
\* pre-restore copy
restore_backup_unchecked(dbfile, dir, now, name) ==
    LET saved == IF dbfile # NoFile THEN WriteFile(dir, PreRestoreName(now), dbfile) ELSE dir
    IN  IF ~Exists(dir, name) THEN [ret |-> "false", db |-> dbfile, dir |-> saved]
        ELSE [ret |-> "true",
              db |-> IF name.gz THEN Gunzip(ReadFile(saved, name)) ELSE ReadFile(saved, name),
              dir |-> saved]

\* restore_backup copying the backup file as it is, compressed or not
restore_backup_raw(dbfile, dir, now, name) ==
    IF ~Exists(dir, name) THEN [ret |-> "false", db |-> dbfile, dir |-> dir]
    ELSE LET saved == IF dbfile # NoFile THEN WriteFile(dir, PreRestoreName(now), dbfile)
                      ELSE dir
         IN  [ret |-> "true", db |-> ReadFile(saved, name), dir |-> saved]

\* restore_backup: [ret, db, dir]
restore_backup(dbfile, dir, now, name) ==
    IF ~Exists(dir, name) THEN [ret |-> "false", db |-> dbfile, dir |-> dir]
    ELSE LET saved == IF dbfile # NoFile THEN WriteFile(dir, PreRestoreName(now), dbfile)
                      ELSE dir
         IN  [ret |-> "true",
              db |-> IF name.gz THEN Gunzip(ReadFile(saved, name)) ELSE ReadFile(saved, name),
              dir |-> saved]

\* file name a sorts after file name b: the timestamps compare as numbers,
\* and "backup_T.db.gz" sorts after its prefix "backup_T.db"
SortsAfter(a, b) == a.ts > b.ts \/ (a.ts = b.ts /\ a.gz /\ ~b.gz)

RECURSIVE SortedNames(_, _)
\* the names in sequence, the one that sorts last first when reverse
SortedNames(names, reverse) ==
    IF names = {} THEN <<>>
    ELSE LET first == CHOOSE a \in names :
                          \A b \in names \ {a} :
                              IF reverse THEN SortsAfter(a, b) ELSE SortsAfter(b, a)
         IN  <<first>> \o SortedNames(names \ {first}, reverse)

\* list_backups sorting without reverse=True
list_backups_oldest_first(dir) ==
    SortedNames({NameOfFile(f) : f \in {g \in dir : g.prefix = "backup"}}, FALSE)

\* list_backups: the names of the backup_ files, sorted by name in reverse
list_backups(dir) ==
    SortedNames({NameOfFile(f) : f \in {g \in dir : g.prefix = "backup"}}, TRUE)

\* delete_old_backups, every os.remove succeeding
delete_old_backups(dir, keep_count) ==
    LET backups == list_backups(dir)
    IN  IF Len(backups) <= keep_count THEN dir
        ELSE {f \in dir :
                 \A i \in (keep_count + 1)..Len(backups) : NameOfFile(f) # backups[i]}

Names ==
    {BackupName(ts, gz) : ts \in Seconds, gz \in BOOLEAN}
    \cup {PreRestoreName(ts) : ts \in Seconds} \cup {StrayName}

Operation(op, name, k, ret) ==
    [op |-> op, prefix |-> name.prefix, ts |-> name.ts, gz |-> name.gz, k |-> k, ret |-> ret]

InitBackup ==
    /\ db = Disconnected
    /\ CallInit
    /\ FillOff
    /\ LookupOff
    /\ MatchOff /\ NormOff /\ DetectOff /\ HookOff
    /\ b_db \in {NoFile} \cup {Plain(c) : c \in Contents}
    /\ b_dir = {}
    /\ b_clock = 1
    /\ b_last = [op |-> "none", prefix |-> "", ts |-> 0, gz |-> FALSE, k |-> 0, ret |-> "none"]
    /\ b_taken = {}

backup_frame == <<db, call_vars, fill_vars, lookup_vars, match_vars, norm_vars, detect_vars,
                  hook_vars>>

\* a second passes
Tick ==
    /\ b_clock + 1 \in Seconds
    /\ b_clock' = b_clock + 1
    /\ b_last' = Operation("tick", StrayName, 0, "none")
    /\ UNCHANGED <<backup_frame, b_db, b_dir, b_taken>>

\* the application writes the database, or the file is removed
ModifyDb ==
    /\ b_db' \in ({NoFile} \cup {Plain(c) : c \in Contents}) \ {b_db}
    /\ b_last' = Operation("modify", StrayName, 0, "none")
    /\ UNCHANGED <<backup_frame, b_dir, b_clock, b_taken>>

CreateBackup(compress) ==
    LET out == create_backup(b_db, b_dir, b_clock, compress)
        name == BackupName(b_clock, compress)
    IN  /\ b_dir' = out.dir
        /\ b_last' = Operation("create", name, 0, out.ret)
        /\ b_taken' = IF out.ret = "path"
                      THEN {t \in b_taken : t.name # name} \cup {[name |-> name, c |-> b_db.c]}
                      ELSE b_taken
        /\ UNCHANGED <<backup_frame, b_db, b_clock>>

RestoreBackup(name) ==
    LET out == restore_backup(b_db, b_dir, b_clock, name)
    IN  /\ b_db' = out.db
        /\ b_dir' = out.dir
        /\ b_last' = Operation("restore", name, 0, out.ret)
        /\ UNCHANGED <<backup_frame, b_clock, b_taken>>

DeleteOldBackups(keep_count) ==
    /\ b_dir' = delete_old_backups(b_dir, keep_count)
    /\ b_last' = Operation("delete", StrayName, keep_count, "none")
    /\ b_taken' = {t \in b_taken : Exists(b_dir', t.name)}
    /\ UNCHANGED <<backup_frame, b_db, b_clock>>

NextBackup ==
    \/ Tick
    \/ ModifyDb
    \/ \E compress \in BOOLEAN : CreateBackup(compress)
    \/ \E name \in Names : RestoreBackup(name)
    \/ \E keep_count \in KeepCounts : DeleteOldBackups(keep_count)

SpecBackup == InitBackup /\ [][NextBackup]_vars

\* the content that the backup file restored last was taken of
TakenContent ==
    (CHOOSE t \in b_taken : t.name = BackupName(b_last.ts, b_last.gz)).c

\* a backup file written by create_backup and still in the directory was restored
RestoredBackup ==
    /\ b_last.op = "restore"
    /\ b_last.prefix = "backup"
    /\ Exists(b_dir, BackupName(b_last.ts, b_last.gz))

\* C22: restore_backup of a backup file that create_backup took of content S,
\* compressed or not, returns True and leaves the database with content S,
\* however the database was modified in between
C22_RoundTrip ==
    RestoredBackup => (b_last.ret = "true" /\ b_db = Plain(TakenContent))

\* a compressed backup was restored over a database that had been modified:
\* the pre-restore copy holds the other content
C22_Witness ==
    /\ RestoredBackup
    /\ b_last.gz
    /\ b_last.ret = "true"
    /\ Exists(b_dir, PreRestoreName(b_clock))
    /\ ReadFile(b_dir, PreRestoreName(b_clock)) # b_db

\* C23: restore_backup of a name that is not in the backup directory returns
\* False and leaves the database file and the directory as they were, without
\* a pre-restore copy
C23_MissingFileNoChange ==
    [][(b_last'.op = "restore"
          /\ ~Exists(b_dir, [prefix |-> b_last'.prefix, ts |-> b_last'.ts, gz |-> b_last'.gz]))
       => (b_last'.ret = "false" /\ b_db' = b_db /\ b_dir' = b_dir)]_vars

\* a restore of a missing name was refused while there was a database to save
\* and no pre-restore copy exists
C23_Witness ==
    /\ b_last.op = "restore"
    /\ b_last.ret = "false"
    /\ b_db # NoFile
    /\ \A f \in b_dir : f.prefix = "backup"
    /\ b_dir # {}

\* the date of a backup, as list_backups reads it from the file name
NotOlder(a, b) == a.ts >= b.ts

\* C24: delete_old_backups(keep_count = k) on a directory with more than k
\* backups leaves list_backups with exactly k backups, all of them there
\* before and none older than a removed one, in the order they were listed
\* before; with k or fewer backups the directory is left as it was
C24_KeepsNewest ==
    [][b_last'.op = "delete" =>
          LET before == list_backups(b_dir)
              after == list_backups(b_dir')
              k == b_last'.k
          IN  IF Len(before) <= k THEN b_dir' = b_dir
              ELSE /\ after = SubSeq(before, 1, k)
                   /\ \A i \in DOMAIN after : \A j \in DOMAIN before :
                          (\A h \in DOMAIN after : after[h] # before[j])
                              => NotOlder(after[i], before[j])
                   /\ \A f \in b_dir : f.prefix # "backup" => f \in b_dir']_vars

\* after a cleanup keeping one backup, only a backup of the later second is left
C24_Witness ==
    /\ b_last.op = "delete"
    /\ b_last.k = 1
    /\ Len(list_backups(b_dir)) = 1
    /\ list_backups(b_dir)[1].ts = 2
    /\ \E t \in b_taken : TRUE

\* the score the loop computed for client i of the roster
ComputedFor(i) == ScoreTable[MatchSearch][db.clients[i]]

\* C25: the client returned by find_matching_client scores strictly more than
\* every client before it in the roster and at least as much as every client
\* after it: among clients with the maximum score the first one is returned
C25_FirstMaximumWins ==
    (MatchReturned /\ m_result # 0) =>
        \A j \in DOMAIN db.clients :
            /\ j < m_result => Greater(ComputedFor(m_result), ComputedFor(j))
            /\ j > m_result => ~Greater(ComputedFor(j), ComputedFor(m_result))

\* two clients share the maximum score and the earlier one was returned
C25_Witness ==
    /\ MatchReturned
    /\ m_result # 0
    /\ \E j \in DOMAIN db.clients :
          j > m_result /\ SameScore(ComputedFor(j), ComputedFor(m_result))

\* the mapped fields whose value the call changed
Copied == {F \in MappedFields : f_result.rec[F] # f_extracted[F]}

\* C26: after fill_from_history with a historical order, history_fields lists
\* each copied mapped field once and nothing else, every copied field holds
\* the historical value, filled_from_history is true exactly when a field was
\* copied, and when none was the record is the extracted record, without
\* provenance flag, note or confidence change
C26_ProvenanceExact ==
    FillReturned =>
        /\ Range(f_result.rec.history_fields) = Copied
        /\ Len(f_result.rec.history_fields) = Cardinality(Copied)
        /\ \A F \in Copied : f_result.rec[F] = HistoricalValue(f_last, F)
        /\ (f_result.rec.filled_from_history = Bool(TRUE)) <=> (Copied # {})
        /\ Copied = {} => f_result = [raised |-> FALSE, rec |-> f_extracted]

\* some fields were copied, one null field was not (history has no value for
\* it), and a field the extractor had found was kept
C26_Witness ==
    /\ FillReturned
    /\ ~f_result.raised
    /\ Cardinality(Copied) >= 2
    /\ \E F \in MappedFields \ Copied : f_extracted[F] = Null
    /\ \E F \in MappedFields \ Copied : Truthy(f_extracted[F])

\* C27: fill_from_history applied to its own result with the same historical
\* order returns that record as it is: no further field filled, and the same
\* history_fields, provenance note and confiance
C27_FillIdempotent ==
    f_pc = "reapplied" => f_again = [raised |-> FALSE, rec |-> f_result.rec]

\* the first application filled fields and raised the confidence, the second
\* had a historical order to look at
C27_Witness ==
    /\ f_pc = "reapplied"
    /\ f_last.found
    /\ Len(f_result.rec.history_fields) >= 2
    /\ f_extracted.confiance = Num(40)
    /\ f_again.rec.confiance = Num(ConfidenceFloor)

\* the fields of a record that field_mapping does not name
UnmappedFields ==
    {"numero_commande", "date_commande", "date_livraison", "entreprise_cliente",
     "est_bon_commande"}

\* C28: the order number, order date, delivery date, client name and
\* est_bon_commande of the record fill_from_history returns are those of the
\* extracted record, never values of the historical order
C28_UnmappedFieldsKept ==
    /\ f_pc \in {"returned", "reapplied"} /\ ~f_result.raised
           => \A f \in UnmappedFields : f_result.rec[f] = f_extracted[f]
    /\ f_pc = "reapplied" /\ ~f_again.raised
           => \A f \in UnmappedFields : f_again.rec[f] = f_extracted[f]

\* the extracted order number is null, the historical order has one, and the
\* call filled mapped fields from that order
C28_Witness ==
    /\ f_pc = "returned" /\ ~f_result.raised
    /\ f_last.found
    /\ ~Truthy(Get(f_extracted.numero_commande))
    /\ Truthy(OrderGet(f_last, "numero_commande"))
    /\ f_result.rec.history_fields # <<>>
    /\ f_result.rec.history_source_order = OrderGet(f_last, "numero_commande")

\* C29: in the merged outcome the record's entreprise_cliente is the candidate
\* client name that the classifier reported, whatever name the field
\* extraction found and whatever stored name the matcher resolved
C29_CandidateNameKept ==
    (Returned /\ MergedOutcome) => result.rec.entreprise_cliente = reorder_info.client_name

\* a merged outcome where the field extraction found another client name and
\* the historical order belongs to a client stored under another name
C29_Witness ==
    /\ Returned /\ MergedOutcome
    /\ Truthy(Get(first_response.rec.entreprise_cliente))
    /\ first_response.rec.entreprise_cliente # reorder_info.client_name
    /\ Str(last_order.client_nom) # reorder_info.client_name
    /\ result.rec.entreprise_cliente = reorder_info.client_name

\* the set of tokens of a name after normalization, by string index
TokenTable == [i \in NameIndexes |-> Words(normalize_client_name(StrChars(i)))]

\* client i of the roster has the normalized token set of the candidate name
ExactClient(i) == TokenTable[db.clients[i]] = TokenTable[MatchSearch]

\* C30: when the candidate name has a token and some client of the roster has
\* the same normalized token set, find_matching_client returns a client with
\* that token set, whatever the other clients and their order
C30_ExactMatchWins ==
    (MatchReturned /\ TokenTable[MatchSearch] # {} /\ \E i \in DOMAIN db.clients : ExactClient(i))
        => (m_result # 0 /\ ExactClient(m_result))

\* the client with the candidate's token set is stored under another spelling
\* and comes after a client that also scores above the threshold
C30_Witness ==
    /\ MatchReturned
    /\ m_result > 1
    /\ ExactClient(m_result)
    /\ db.clients[m_result] # MatchSearch
    /\ \E j \in 1..(m_result - 1) :
          ~ExactClient(j) /\ Greater(ComputedFor(j), ThresholdScore)

====
